---- MODULE Spec2Model ----
(***************************************************************************)
(* A model of ext/misc/json.c: the string accumulator (struct Json), the   *)
(* JSON parser (struct JsonParse / JsonNode), the renderer and the SQL     *)
(* functions built on them.                                                *)
(*                                                                         *)
(* Text is a sequence of byte values (ASCII codes); a C string is the      *)
(* sequence followed by an implicit NUL.  Pure C functions are operators   *)
(* that take and return the records they work on.  Fields of a record      *)
(* that do not exist in the C struct are marked "ghost": they record what  *)
(* the host allocator and the memory did.                                  *)
(***************************************************************************)
EXTENDS Integers, Sequences, FiniteSets, TLC

VARIABLES
  js,      \* the Json accumulator of the operation in progress
  op,      \* the last operation performed, with what it was given
  call,    \* the SQL function call being served (function and arguments)
  px,      \* the JsonParse of the call
  pc       \* position of the call: "idle", "parsed", "done"

vars == <<js, op, call, px, pc>>

(***************************************************************************)
(* Bytes                                                                   *)
(***************************************************************************)
chNul    == 0
chTab    == 9
chCR     == 13
chSpace  == 32
chQuote  == 34
chPlus   == 43
chComma  == 44
chMinus  == 45
chDot    == 46
chZero   == 48
chOne    == chZero + 1
chNine   == 57
chColon  == 58
chUpperA == 65
chUpperE == 69
chUpperZ == 90
chLBrack == 91
chBSlash == 92
chRBrack == 93
chLowerA == 97
chLowerE == 101
chLowerZ == 122
chLBrace == 123
chRBrace == 125

str_null  == <<110, 117, 108, 108>>
str_true  == <<116, 114, 117, 101>>
str_false == <<102, 97, 108, 115, 101>>

(***************************************************************************)
(* The host's result channel (sqlite3_context) and allocator               *)
(***************************************************************************)
SQLITE_OK    == 0
SQLITE_NOMEM == 7

\* What the function has set as its result so far; a function that sets
\* nothing returns SQL NULL.
NoResult == [kind |-> "none", text |-> <<>>, val |-> 0, msg |-> ""]

sqlite3_result_error_nomem(ctx) == [NoResult EXCEPT !.kind = "nomem"]

sqlite3_result_error(ctx, msg) == [NoResult EXCEPT !.kind = "error", !.msg = msg]

\* sqlite3_result_text64(pCtx, z, n, ...) and sqlite3_result_text: the
\* host takes the n bytes
sqlite3_result_text(ctx, z) == [NoResult EXCEPT !.kind = "text", !.text = z]

sqlite3_result_null(ctx) == [NoResult EXCEPT !.kind = "null"]

sqlite3_result_int(ctx, v) == [NoResult EXCEPT !.kind = "int", !.val = v]

(***************************************************************************)
(* The accumulator: struct Json                                            *)
(*   zBuf    the bytes zBuf[0..nUsed)                                      *)
(*   mem     ghost: how many more allocation requests the host grants      *)
(*   nHeap   ghost: heap buffers obtained by jsonGrow that were neither    *)
(*           freed nor handed to the host                                  *)
(*   overrun ghost: a byte was stored at an index >= nAlloc.  What the C   *)
(*           program does from there on is undefined: the loops of the     *)
(*           model stop where they find the flag set, and the flag is the  *)
(*           record that anything may have happened                        *)
(***************************************************************************)
zSpaceSize == 100
GrowSlack  == 100

jsonZero(p) ==
  [p EXCEPT !.zBuf = <<>>, !.nAlloc = zSpaceSize, !.nUsed = 0, !.bStatic = TRUE]

jsonInit(ctx, mem) ==
  jsonZero([pCtx |-> ctx, zBuf |-> <<>>, nAlloc |-> 0, nUsed |-> 0,
            bStatic |-> TRUE, oom |-> FALSE,
            mem |-> mem, nHeap |-> 0, overrun |-> FALSE])

jsonReset(p) ==
  jsonZero(IF ~p.bStatic THEN [p EXCEPT !.nHeap = @ - 1] ELSE p)

jsonOom(p) ==
  jsonReset([p EXCEPT !.oom = TRUE, !.pCtx = sqlite3_result_error_nomem(@)])

\* Returns the accumulator and the return code.
jsonGrow(p, N) ==
  LET nTotal == IF N < p.nAlloc THEN p.nAlloc * 2 ELSE p.nAlloc + N + GrowSlack
  IN  IF p.bStatic
        THEN IF p.oom
               THEN [p |-> p, rc |-> SQLITE_NOMEM]
               ELSE IF p.mem = 0            \* sqlite3_malloc64 returns 0
                      THEN [p |-> jsonOom(p), rc |-> SQLITE_NOMEM]
                      ELSE [p |-> [p EXCEPT !.bStatic = FALSE, !.nAlloc = nTotal,
                                             !.mem = @ - 1, !.nHeap = @ + 1],
                            rc |-> SQLITE_OK]
        ELSE IF p.mem = 0                   \* sqlite3_realloc64 returns 0
               THEN [p |-> jsonOom(p), rc |-> SQLITE_NOMEM]
               ELSE [p |-> [p EXCEPT !.nAlloc = nTotal, !.mem = @ - 1],
                     rc |-> SQLITE_OK]

\* p->zBuf[p->nUsed++] = c
StoreByte(p, c) ==
  [p EXCEPT !.zBuf = Append(@, c), !.nUsed = @ + 1,
            !.overrun = @ \/ (p.nUsed >= p.nAlloc)]

\* memcpy(p->zBuf+p->nUsed, zIn, N); p->nUsed += N;
StoreBytes(p, zIn, N) ==
  [p EXCEPT !.zBuf = @ \o SubSeq(zIn, 1, N), !.nUsed = @ + N,
            !.overrun = @ \/ (p.nUsed + N > p.nAlloc)]

jsonAppendRaw(p, zIn, N) ==
  LET Store(q) == StoreBytes(q, zIn, N)
      Grown(g) == IF g.rc # 0 THEN g.p ELSE Store(g.p)
  IN  IF N + p.nUsed >= p.nAlloc THEN Grown(jsonGrow(p, N)) ELSE Store(p)

jsonAppend(p, zIn) == jsonAppendRaw(p, zIn, Len(zIn))

jsonAppendChar(p, c) ==
  LET Store(q) == StoreByte(q, c)
      Grown(g) == IF g.rc # 0 THEN g.p ELSE Store(g.p)
  IN  IF p.nUsed >= p.nAlloc THEN Grown(jsonGrow(p, 1)) ELSE Store(p)

\* The index of the first '"' or '\' of zIn at or after i, N if none.
NextEscape(zIn, N, i) ==
  LET S == {k \in i..(N - 1) : zIn[k + 1] = chQuote \/ zIn[k + 1] = chBSlash}
  IN  IF S = {} THEN N ELSE CHOOSE k \in S : \A m \in S : k <= m

\* The loop of jsonAppendString from index i (0-based) on, closing quote
\* included.  The bytes up to the next '"' or '\' are stored one by one,
\* with no test in between: they are stored together here.  A failed
\* jsonGrow returns from the function at once.
RECURSIVE jsonAppendStringFrom(_, _, _, _)
jsonAppendStringFrom(p, zIn, N, i) ==
  LET Escape(q, e) ==
        jsonAppendStringFrom(StoreByte(StoreByte(q, chBSlash), zIn[e + 1]),
                             zIn, N, e + 1)
      Plain(q, e) ==
        IF e >= N THEN StoreByte(q, chQuote)
        ELSE IF q.nUsed + N + 1 - e > q.nAlloc
          THEN LET Grown(g) == IF g.rc # 0 THEN g.p ELSE Escape(g.p, e)
               IN  Grown(jsonGrow(q, N + 1 - e))
          ELSE Escape(q, e)
      Run(e) == Plain(StoreBytes(p, SubSeq(zIn, i + 1, e), e - i), e)
  IN  IF p.overrun THEN p ELSE Run(NextEscape(zIn, N, i))

jsonAppendString(p, zIn, N) ==
  LET Store(q) == jsonAppendStringFrom(StoreByte(q, chQuote), zIn, N, 0)
      Grown(g) == IF g.rc # 0 THEN g.p ELSE Store(g.p)
  IN  IF N + p.nUsed + 2 >= p.nAlloc THEN Grown(jsonGrow(p, N + 2))
                                     ELSE Store(p)

\* The text goes to the host, which copies it (SQLITE_TRANSIENT) or takes
\* the heap buffer over (sqlite3_free as the destructor).
jsonResult(p) ==
  IF ~p.oom
    THEN jsonZero([p EXCEPT !.pCtx = sqlite3_result_text(@, p.zBuf),
                            !.nHeap = IF p.bStatic THEN @ ELSE @ - 1])
    ELSE p

(***************************************************************************)
(* The parser: struct JsonNode, struct JsonParse                           *)
(*   aNode   the slots aNode[0..nNode) (slot k is aNode[k+1] here)         *)
(*   zJContent  offset of the content in zJson, NullPtr for no content     *)
(*   mem     ghost: how many more allocation requests the host grants      *)
(*   nHeap   ghost: node arrays allocated and not freed                    *)
(*   fault   ghost: a node slot outside aNode[0..nNode) was read or        *)
(*           written, or a null pointer was dereferenced                   *)
(*   junk    ghost: the eType such a stray read returns                    *)
(*   gDepth  ghost: number of containers open around the current position  *)
(* and in a node                                                           *)
(*   gDepth  ghost: the containers open when the node was added            *)
(*   gFill   ghost: how often n was assigned after the node was added      *)
(***************************************************************************)
JSON_NULL   == 0
JSON_TRUE   == 1
JSON_FALSE  == 2
JSON_INT    == 3
JSON_REAL   == 4
JSON_STRING == 5
JSON_ARRAY  == 6
JSON_OBJECT == 7

NullPtr == -1

\* An u32 is kept as the 32-bit two's complement integer of the same bits
\* (the model checker's integers are 32 bits wide): (u32)(-1) is kept as
\* -1, sums and differences are the plain ones, and a<b between two u32
\* is ULt(a, b).
ULt(a, b) == IF (a < 0) = (b < 0) THEN a < b ELSE b < 0

\* The byte zJson[i] of a NUL-terminated string (i counts from 0).
At(z, i) == IF i >= 0 /\ i < Len(z) THEN z[i + 1] ELSE chNul

isspace(c) == c = chSpace \/ (c >= chTab /\ c <= chCR)
isdigit(c) == c >= chZero /\ c <= chNine
isalnum(c) == \/ isdigit(c)
              \/ (c >= chUpperA /\ c <= chUpperZ)
              \/ (c >= chLowerA /\ c <= chLowerZ)

\* while( isspace(z[i]) ){ i++; }
RECURSIVE SkipSpace(_, _)
SkipSpace(z, i) == IF isspace(At(z, i)) THEN SkipSpace(z, i + 1) ELSE i

\* strncmp(z+i, lit, Len(lit))==0
StartsWith(z, i, lit) == \A k \in 1..Len(lit) : At(z, i + k - 1) = lit[k]

\* memset(pParse, 0, sizeof(*pParse)); pParse->zJson = zJson;
NewParse(zJson, mem, junk) ==
  [nNode |-> 0, nAlloc |-> 0, aNode |-> <<>>, zJson |-> zJson, oom |-> FALSE,
   mem |-> mem, nHeap |-> 0, fault |-> FALSE, junk |-> junk, gDepth |-> 0]

\* Returns the parse and the return value (an int).
jsonParseAddNode(pParse, eType, n, zContent) ==
  LET node == [eType |-> eType, bRaw |-> FALSE, n |-> n, zJContent |-> zContent,
               gDepth |-> pParse.gDepth, gFill |-> 0]
      put(q) == [pParse |-> [q EXCEPT !.aNode = Append(@, node),
                                      !.nNode = @ + 1],
                 ret |-> q.nNode]
  IN  IF ~ULt(pParse.nNode, pParse.nAlloc)
        THEN IF pParse.oom
               THEN [pParse |-> pParse, ret |-> -1]
               ELSE LET nNew == pParse.nAlloc * 2 + 10
                    IN  IF ~ULt(pParse.nNode, nNew) \/ pParse.mem = 0
                          THEN [pParse |-> [pParse EXCEPT !.oom = TRUE],
                                ret |-> -1]
                          ELSE put([pParse EXCEPT
                                      !.nAlloc = nNew, !.mem = @ - 1,
                                      !.nHeap = IF pParse.nAlloc = 0
                                                  THEN @ + 1 ELSE @])
        ELSE put(pParse)

\* pParse->aNode[k].eType, k an u32
NodeType(pParse, k) ==
  IF ULt(k, pParse.nNode) THEN pParse.aNode[k + 1].eType ELSE pParse.junk

\* pParse->aNode[k].n = v, k an u32
SetNodeN(pParse, k, v) ==
  IF ULt(k, pParse.nNode)
    THEN [pParse EXCEPT !.aNode[k + 1].n = v, !.aNode[k + 1].gFill = @ + 1]
    ELSE [pParse EXCEPT !.fault = TRUE]

\* The string branch's loop from j on: the index of the closing quote, or
\* -1.  The loop steps over the bytes that are neither '\' nor '"' one by
\* one; Stop is its turn at the first byte k that is one of the two (or
\* the NUL, if there is none).
RECURSIVE ScanString(_, _)

\* The mutant: a backslash does not take the byte after it along.
ScanString_QuoteAfterBackslashEnds(z, j) ==
  LET S == {k \in j..(Len(z) - 1) : z[k + 1] = chQuote}
  IN  IF S = {} THEN -1 ELSE CHOOSE k \in S : \A m \in S : k <= m

ScanString(z, j) ==
  LET S == {k \in j..(Len(z) - 1) : z[k + 1] = chBSlash \/ z[k + 1] = chQuote}
      Stop(k) ==
        IF z[k + 1] = chQuote THEN k
        ELSE IF At(z, k + 1) = chNul THEN -1
        ELSE ScanString(z, k + 2)
  IN  IF S = {} THEN -1 ELSE Stop(CHOOSE k \in S : \A m \in S : k <= m)

\* The number branch's loop from j on: where it stops, or ret = -1.
RECURSIVE ScanNumber(_, _, _, _)
ScanNumber(z, j, seenDP, seenE) ==
  LET c == At(z, j)
  IN  IF isdigit(c) THEN ScanNumber(z, j + 1, seenDP, seenE)
      ELSE IF c = chDot
             THEN IF At(z, j - 1) = chMinus \/ seenDP
                    THEN [ret |-> -1, j |-> j, seenDP |-> seenDP]
                    ELSE ScanNumber(z, j + 1, TRUE, seenE)
      ELSE IF c = chLowerE \/ c = chUpperE
             THEN IF At(z, j - 1) < chZero \/ seenE
                    THEN [ret |-> -1, j |-> j, seenDP |-> seenDP]
                    ELSE IF At(z, j + 1) = chPlus \/ At(z, j + 1) = chMinus
                           THEN ScanNumber(z, j + 2, TRUE, TRUE)
                           ELSE ScanNumber(z, j + 1, TRUE, TRUE)
      ELSE [ret |-> 0, j |-> j, seenDP |-> seenDP]

Fail(pParse) == [pParse |-> pParse, ret |-> -1]

RECURSIVE jsonParseValue(_, _)
RECURSIVE ParseObjectFrom(_, _, _)
RECURSIVE ParseArrayFrom(_, _, _)

\* One turn of the object branch's for loop, entered with j; iThis is u32.
\* AfterKey is the turn from the return of the first jsonParseValue on,
\* AfterValue from the return of the second one on.
ParseObjectFrom(pParse, iThis, j0) ==
  LET z == pParse.zJson
      j == SkipSpace(z, j0)
      Close(p, jEnd) ==
        [pParse |-> [SetNodeN(p, iThis, p.nNode - iThis - 1)
                       EXCEPT !.gDepth = @ - 1],
         ret |-> jEnd + 1]
      Delim(p, j4) ==
        IF At(z, j4) = chComma THEN ParseObjectFrom(p, iThis, j4 + 1)
        ELSE IF At(z, j4) # chRBrace THEN Fail(p)
        ELSE Close(p, j4)
      AfterValue(r) ==
        IF r.ret < 0 THEN Fail(r.pParse)
        ELSE Delim(r.pParse, SkipSpace(z, r.ret))
      Colon(p, j2) ==
        IF At(z, j2) # chColon THEN Fail(p)
        ELSE AfterValue(jsonParseValue(p, j2 + 1))
      KeyType(p, k, x) ==
        IF NodeType(p, k) # JSON_STRING
          THEN Fail(IF ULt(k, p.nNode) THEN p ELSE [p EXCEPT !.fault = TRUE])
          ELSE Colon(IF ULt(k, p.nNode) THEN p ELSE [p EXCEPT !.fault = TRUE],
                     SkipSpace(z, x))
      AfterKey(r) ==
        IF r.ret < 0
          THEN IF r.ret = -2 /\ r.pParse.nNode = iThis + 1
                 THEN [pParse |-> [r.pParse EXCEPT !.gDepth = @ - 1],
                       ret |-> j + 1]
                 ELSE Fail(r.pParse)
          ELSE KeyType(r.pParse, r.pParse.nNode - 1, r.ret)
  IN  AfterKey(jsonParseValue(pParse, j))

\* One turn of the array branch's for loop, entered with j; iThis is u32.
ParseArrayFrom(pParse, iThis, j0) ==
  LET z == pParse.zJson
      j == SkipSpace(z, j0)
      Close(p, jEnd) ==
        [pParse |-> [SetNodeN(p, iThis, p.nNode - iThis - 1)
                       EXCEPT !.gDepth = @ - 1],
         ret |-> jEnd + 1]
      Delim(p, j2) ==
        IF At(z, j2) = chComma THEN ParseArrayFrom(p, iThis, j2 + 1)
        ELSE IF At(z, j2) # chRBrack THEN Fail(p)
        ELSE Close(p, j2)
      AfterValue(r) ==
        IF r.ret < 0
          THEN IF r.ret = -3 /\ r.pParse.nNode = iThis + 1
                 THEN [pParse |-> [r.pParse EXCEPT !.gDepth = @ - 1],
                       ret |-> j + 1]
                 ELSE Fail(r.pParse)
          ELSE Delim(r.pParse, SkipSpace(z, r.ret))
  IN  AfterValue(jsonParseValue(pParse, j))

\* The value of a call of jsonParseAddNode whose return value is dropped.
Added(a, ret) == [pParse |-> a.pParse, ret |-> ret]

\* Returns the parse and the return value (an int).  iThis is an u32, so
\* the -1 of a failed jsonParseAddNode is stored as 4294967295 and the
\* test iThis<0 is an unsigned one.
jsonParseValue(pParse, i0) ==
  LET z == pParse.zJson
      i == SkipSpace(z, i0)
      c == At(z, i)
      Object(a) ==
        IF ULt(a.ret, 0) THEN Fail(a.pParse)
        ELSE ParseObjectFrom([a.pParse EXCEPT !.gDepth = @ + 1], a.ret, i + 1)
      Array(a) ==
        IF ULt(a.ret, 0) THEN Fail(a.pParse)
        ELSE ParseArrayFrom([a.pParse EXCEPT !.gDepth = @ + 1], a.ret, i + 1)
      String(j) ==
        IF j < 0 THEN Fail(pParse)
        ELSE Added(jsonParseAddNode(pParse, JSON_STRING, j + 1 - i, i), j + 1)
      Number(s) ==
        IF s.ret < 0 \/ At(z, s.j - 1) < chZero THEN Fail(pParse)
        ELSE Added(jsonParseAddNode(pParse,
                                    IF s.seenDP THEN JSON_REAL ELSE JSON_INT,
                                    s.j - i, i),
                   s.j)
  IN  IF c = chNul THEN [pParse |-> pParse, ret |-> 0]
      ELSE IF c = chLBrace
        THEN Object(jsonParseAddNode(pParse, JSON_OBJECT, 0, NullPtr))
      ELSE IF c = chLBrack
        THEN Array(jsonParseAddNode(pParse, JSON_ARRAY, 0, NullPtr))
      ELSE IF c = chQuote
        THEN String(ScanString(z, i + 1))
      ELSE IF c = str_null[1] /\ StartsWith(z, i, str_null)
                              /\ ~isalnum(At(z, i + 4))
        THEN Added(jsonParseAddNode(pParse, JSON_NULL, 0, NullPtr), i + 4)
      ELSE IF c = str_true[1] /\ StartsWith(z, i, str_true)
                              /\ ~isalnum(At(z, i + 4))
        THEN Added(jsonParseAddNode(pParse, JSON_TRUE, 0, NullPtr), i + 4)
      ELSE IF c = str_false[1] /\ StartsWith(z, i, str_false)
                               /\ ~isalnum(At(z, i + 5))
        THEN Added(jsonParseAddNode(pParse, JSON_FALSE, 0, NullPtr), i + 5)
      ELSE IF c = chMinus \/ isdigit(c)
        THEN Number(ScanNumber(z, i + 1, FALSE, FALSE))
      ELSE IF c = chRBrace THEN [pParse |-> pParse, ret |-> -2]
      ELSE IF c = chRBrack THEN [pParse |-> pParse, ret |-> -3]
      ELSE Fail(pParse)

\* Returns the parse and the return value.  The test zJson==0 is made by
\* the models of the callers.
jsonParse(zJson, mem, junk) ==
  LET Free(x) == [x EXCEPT !.aNode = <<>>, !.nNode = 0, !.nAlloc = 0,
                           !.nHeap = IF x.nAlloc > 0 THEN @ - 1 ELSE @]
      Finish(x, i) ==
        IF i < 0 THEN [pParse |-> Free(x), ret |-> 1]
                 ELSE [pParse |-> x, ret |-> 0]
      Trail(r) ==
        Finish(r.pParse,
               IF r.ret > 0 /\ At(zJson, SkipSpace(zJson, r.ret)) # chNul
                 THEN -1 ELSE r.ret)
  IN  Trail(jsonParseValue(NewParse(zJson, mem, junk), 0))

(***************************************************************************)
(* The renderer and the value projector                                    *)
(***************************************************************************)
\* What a read of a slot outside aNode[0..nNode) returns.
JunkNode(pParse) ==
  [eType |-> pParse.junk, bRaw |-> FALSE, n |-> 0, zJContent |-> NullPtr,
   gDepth |-> 0, gFill |-> 0]

\* pParse->aNode[k]
NodeAt(pParse, k) ==
  IF k >= 0 /\ k < pParse.nNode THEN pParse.aNode[k + 1] ELSE JunkNode(pParse)

\* The n bytes at pNode->zJContent
Content(pParse, node) ==
  IF node.zJContent = NullPtr
    THEN <<>>
    ELSE SubSeq(pParse.zJson, node.zJContent + 1, node.zJContent + node.n)

RECURSIVE jsonRenderNode(_, _, _)
RECURSIVE RenderArrayFrom(_, _, _, _, _)
RECURSIVE RenderObjectFrom(_, _, _, _, _)

\* The while loop of the JSON_ARRAY case from j on, with the closing ']'.
RenderArrayFrom(pParse, k, j, pOut, fault) ==
  LET Next1(r) ==
        RenderArrayFrom(pParse, k, j + r.ret, r.pOut, fault \/ r.fault)
  IN  IF pOut.overrun THEN [pOut |-> pOut, ret |-> j + 1, fault |-> fault]
      ELSE IF j < NodeAt(pParse, k).n
        THEN Next1(jsonRenderNode(
                     pParse, k + j + 1,
                     IF j > 0 THEN jsonAppendChar(pOut, chComma) ELSE pOut))
        ELSE [pOut |-> jsonAppendChar(pOut, chRBrack), ret |-> j + 1,
              fault |-> fault]

\* The while loop of the JSON_OBJECT case from j on, with the closing '}'.
\* Next1 is the turn from the return of the first jsonRenderNode on (j1 is
\* j after it), Next2 from the return of the second one on.
RenderObjectFrom(pParse, k, j, pOut, fault) ==
  LET Next2(r, j1, f) ==
        RenderObjectFrom(pParse, k, j1 + r.ret, r.pOut, f \/ r.fault)
      Next1(r) ==
        Next2(jsonRenderNode(pParse, k + j + r.ret + 1,
                             jsonAppendChar(r.pOut, chColon)),
              j + r.ret, fault \/ r.fault)
  IN  IF pOut.overrun THEN [pOut |-> pOut, ret |-> j + 1, fault |-> fault]
      ELSE IF j < NodeAt(pParse, k).n
        THEN Next1(jsonRenderNode(
                     pParse, k + j + 1,
                     IF j > 0 THEN jsonAppendChar(pOut, chComma) ELSE pOut))
        ELSE [pOut |-> jsonAppendChar(pOut, chRBrace), ret |-> j + 1,
              fault |-> fault]

\* pNode is &pParse->aNode[k].  Returns the accumulator, the return value
\* and whether a slot outside aNode[0..nNode) was read.
jsonRenderNode(pParse, k, pOut) ==
  LET stray == ~(k >= 0 /\ k < pParse.nNode)
      one(q) == [pOut |-> q, ret |-> 1, fault |-> stray]
      Node(pNode) ==
        CASE pNode.eType = JSON_NULL  -> one(jsonAppendRaw(pOut, str_null, 4))
          [] pNode.eType = JSON_TRUE  -> one(jsonAppendRaw(pOut, str_true, 4))
          [] pNode.eType = JSON_FALSE -> one(jsonAppendRaw(pOut, str_false, 5))
          [] pNode.eType = JSON_STRING /\ pNode.bRaw ->
               one(jsonAppendString(pOut, Content(pParse, pNode), pNode.n))
          [] pNode.eType \in {JSON_STRING, JSON_REAL, JSON_INT} /\ ~pNode.bRaw ->
               one(jsonAppendRaw(pOut, Content(pParse, pNode), pNode.n))
          [] pNode.eType = JSON_ARRAY ->
               RenderArrayFrom(pParse, k, 0, jsonAppendChar(pOut, chLBrack),
                               stray)
          [] pNode.eType = JSON_OBJECT ->
               RenderObjectFrom(pParse, k, 0, jsonAppendChar(pOut, chLBrace),
                                stray)
          [] OTHER -> one(pOut)
  IN  Node(NodeAt(pParse, k))

\* No accumulator was initialised.
NoJson == [pCtx |-> NoResult, zBuf |-> <<>>, nAlloc |-> 0, nUsed |-> 0,
           bStatic |-> TRUE, oom |-> FALSE, mem |-> 0, nHeap |-> 0,
           overrun |-> FALSE]

\* pNode is pParse->aNode, the root.  Returns the result set, the
\* accumulator used (if any) and whether a stray read happened: with no
\* node array (nNode = 0) pNode is the null pointer.
jsonReturn(pParse, ctx, mem) ==
  LET stray == pParse.nNode = 0
      out(c) == [ctx |-> c, js |-> NoJson, fault |-> stray]
      Result(s, f) == [ctx |-> s.pCtx, js |-> s, fault |-> stray \/ f]
      Rendered(r) == Result(jsonResult(r.pOut), r.fault)
      Node(pNode) ==
        CASE pNode.eType = JSON_NULL  -> out(sqlite3_result_null(ctx))
          [] pNode.eType = JSON_TRUE  -> out(sqlite3_result_int(ctx, 1))
          [] pNode.eType = JSON_FALSE -> out(sqlite3_result_int(ctx, 0))
          [] pNode.eType \in {JSON_REAL, JSON_INT} ->
               out(sqlite3_result_text(ctx, Content(pParse, pNode)))
          [] pNode.eType = JSON_STRING ->
               IF pNode.bRaw
                 THEN out(sqlite3_result_text(ctx, Content(pParse, pNode)))
                 ELSE out(ctx)
          [] pNode.eType \in {JSON_ARRAY, JSON_OBJECT} ->
               Rendered(jsonRenderNode(pParse, 0, jsonInit(ctx, mem)))
          [] OTHER -> out(ctx)
  IN  Node(NodeAt(pParse, 0))

(***************************************************************************)
(* The SQL functions.  An argument (sqlite3_value) is its type and the     *)
(* bytes sqlite3_value_text gives for it.                                  *)
(***************************************************************************)
SqlValue(type, text) == [type |-> type, text |-> text]

\* The body of the for loop of jsonArrayFunc from argument i (0-based) on,
\* up to the return of the function.
RECURSIVE ArrayFuncFrom(_, _, _, _)
ArrayFuncFrom(jx, argv, i, cSep) ==
  LET Value(j1, v) ==
        CASE v.type = "NULL" ->
               ArrayFuncFrom(jsonAppendRaw(j1, str_null, 4), argv, i + 1,
                             chComma)
          [] v.type \in {"INTEGER", "FLOAT"} ->
               ArrayFuncFrom(jsonAppendRaw(j1, v.text, Len(v.text)), argv,
                             i + 1, chComma)
          [] v.type = "TEXT" ->
               ArrayFuncFrom(jsonAppendString(j1, v.text, Len(v.text)), argv,
                             i + 1, chComma)
          [] OTHER ->
               [jsonZero(j1) EXCEPT !.pCtx =
                  sqlite3_result_error(@, "JSON cannot hold BLOB values")]
  IN  IF jx.overrun THEN jx
      ELSE IF i >= Len(argv)
        THEN jsonResult(jsonAppendRaw(jx, <<chRBrack>>, 1))
        ELSE Value(jsonAppendRaw(jx, <<cSep>>, 1), argv[i + 1])

\* Returns the accumulator jx as the function leaves it, its pCtx being
\* the result set.
jsonArrayFunc(ctx, argv, mem) ==
  ArrayFuncFrom(jsonInit(ctx, mem), argv, 0, chLBrack)

\* The body of the for loop of jsonObjectFunc from argument i on.
RECURSIVE ObjectFuncFrom(_, _, _, _)
ObjectFuncFrom(jx, argv, i, cSep) ==
  LET Value(j2, v) ==
        CASE v.type = "NULL" ->
               ObjectFuncFrom(jsonAppendRaw(j2, str_null, 4), argv, i + 2,
                              chComma)
          [] v.type \in {"INTEGER", "FLOAT"} ->
               ObjectFuncFrom(jsonAppendRaw(j2, v.text, Len(v.text)), argv,
                              i + 2, chComma)
          [] v.type = "TEXT" ->
               ObjectFuncFrom(jsonAppendString(j2, v.text, Len(v.text)), argv,
                              i + 2, chComma)
          [] OTHER ->
               [jsonZero(j2) EXCEPT !.pCtx =
                  sqlite3_result_error(@, "JSON cannot hold BLOB values")]
      Label(j1, v) ==
        IF v.type # "TEXT"
          THEN jsonZero([j1 EXCEPT !.pCtx = sqlite3_result_error(
                           @, "json_object() labels must be TEXT")])
          ELSE Value(jsonAppendRaw(jsonAppendString(j1, v.text, Len(v.text)),
                                   <<chColon>>, 1),
                     argv[i + 2])
  IN  IF jx.overrun THEN jx
      ELSE IF i >= Len(argv)
        THEN jsonResult(jsonAppendRaw(jx, <<chRBrace>>, 1))
        ELSE Label(jsonAppendRaw(jx, <<cSep>>, 1), argv[i + 1])

jsonObjectFunc(ctx, argv, mem) ==
  IF Len(argv) % 2 = 1
    THEN [NoJson EXCEPT !.pCtx = sqlite3_result_error(
            ctx, "json_object() requires an even number of arguments")]
    ELSE ObjectFuncFrom(jsonInit(ctx, mem), argv, 0, chLBrace)

\* sqlite3_snprintf's %u
RECURSIVE FmtU(_)
FmtU(n) == IF n < 10 THEN <<chZero + n>>
                     ELSE FmtU(n \div 10) \o <<chZero + (n % 10)>>

fmt_node == <<110, 111, 100, 101, 32>>
fmt_type == <<32, 32, 116, 121, 112, 101, 58, 32>>
fmt_n    == <<32, 32, 32, 32, 32, 110, 58, 32>>
fmt_ofst == <<32, 32, 111, 102, 115, 116, 58, 32>>
fmt_text == <<32, 32, 116, 101, 120, 116, 58, 32>>
fmt_nl   == <<10>>
azType   == << <<78, 85, 76, 76>>, <<84, 82, 85, 69>>, <<70, 65, 76, 83, 69>>,
               <<73, 78, 84>>, <<82, 69, 65, 76>>,
               <<83, 84, 82, 73, 78, 71>>, <<65, 82, 82, 65, 89>>,
               <<79, 66, 74, 69, 67, 84>> >>

\* The for loop of jsonParseFunc from node i on.  No line comes near the
\* 50 bytes of zBuf.
RECURSIVE ParseFuncFrom(_, _, _)
ParseFuncFrom(s, x, i) ==
  LET Text(s3, nd) ==
        IF nd.zJContent # NullPtr
          THEN jsonAppendRaw(
                 jsonAppendRaw(
                   jsonAppendRaw(
                     jsonAppend(s3, fmt_ofst \o FmtU(nd.zJContent) \o fmt_nl),
                     fmt_text, 8),
                   Content(x, nd), nd.n),
                 fmt_nl, 1)
          ELSE s3
      Size(s2, nd) ==
        Text(IF nd.eType >= JSON_INT
               THEN jsonAppend(s2, fmt_n \o FmtU(nd.n) \o fmt_nl)
               ELSE s2,
             nd)
      Node(nd) ==
        Size(jsonAppend(
               jsonAppend(s, fmt_node \o FmtU(i) \o <<chColon>> \o fmt_nl),
               fmt_type \o azType[nd.eType + 1] \o fmt_nl),
             nd)
  IN  IF s.overrun \/ i >= x.nNode
        THEN s
        ELSE ParseFuncFrom(Node(x.aNode[i + 1]), x, i + 1)

\* sqlite3_free(x.aNode)
FreeNodes(x) == [x EXCEPT !.nHeap = IF x.nAlloc > 0 THEN @ - 1 ELSE @]

\* Each of the three returns the result set, the accumulator as the
\* function leaves it, the parse as jsonParse returned it (x, with the
\* node array's heap count after the function freed it) and whether a
\* stray read happened.  For an SQL NULL sqlite3_value_text gives the null
\* pointer, and jsonParse returns 1 at once.
ParseNull(ctx) ==
  [ctx |-> ctx, js |-> NoJson, x |-> NewParse(<<>>, 0, 0), rc |-> 1,
   fault |-> FALSE]

ParseFailed(ctx, r) ==
  [ctx |-> ctx, js |-> NoJson, x |-> r.pParse, rc |-> r.ret,
   fault |-> r.pParse.fault]

jsonParseFunc(ctx, argv, mem, junk) ==
  LET Dumped(s, x) ==
        [ctx |-> s.pCtx, js |-> s, x |-> FreeNodes(x), rc |-> 0,
         fault |-> x.fault]
      Parsed(r) ==
        IF r.ret # 0 THEN ParseFailed(ctx, r)
        ELSE Dumped(jsonResult(ParseFuncFrom(jsonInit(ctx, r.pParse.mem),
                                             r.pParse, 0)),
                    r.pParse)
  IN  IF argv[1].type = "NULL" THEN ParseNull(ctx)
      ELSE Parsed(jsonParse(argv[1].text, mem, junk))

jsonTest1Func(ctx, argv, mem, junk) ==
  LET Returned(o, x) ==
        [ctx |-> o.ctx, js |-> o.js, x |-> FreeNodes(x), rc |-> 0,
         fault |-> x.fault \/ o.fault]
      Parsed(r) ==
        IF r.ret # 0 THEN ParseFailed(ctx, r)
        ELSE Returned(jsonReturn(r.pParse, ctx, r.pParse.mem), r.pParse)
  IN  IF argv[1].type = "NULL" THEN ParseNull(ctx)
      ELSE Parsed(jsonParse(argv[1].text, mem, junk))

jsonNodeCountFunc(ctx, argv, mem, junk) ==
  LET Parsed(r) ==
        IF r.ret # 0 THEN ParseFailed(ctx, r)
        ELSE [ctx |-> sqlite3_result_int(ctx, r.pParse.nNode), js |-> NoJson,
              x |-> FreeNodes(r.pParse), rc |-> 0, fault |-> r.pParse.fault]
  IN  IF argv[1].type = "NULL" THEN ParseNull(ctx)
      ELSE Parsed(jsonParse(argv[1].text, mem, junk))

(***************************************************************************)
(* Inputs                                                                  *)
(***************************************************************************)
MaxOps   == 3      \* accumulator operations in a row
MaxText  == 2      \* bytes of a text given to jsonAppendString
MaxMem   == 2      \* allocation requests granted before one is refused
MaxArgs  == 2      \* arguments of json_array / json_object
MaxChars == 3      \* bytes of a JSON text made of any bytes of CharAlpha
MaxToks  == 4      \* tokens of a JSON text made of any tokens of Tokens

Mems == 0..MaxMem

\* n bytes 'a'
Fill(n) == [k \in 1..n |-> chLowerA]

TextAlpha == {chLowerA, chQuote, chBSlash}
Texts     == UNION {[1..n -> TextAlpha] : n \in 0..MaxText}

\* Lengths for jsonAppendRaw: one byte, up to the edge of zSpace, and
\* more than zSpace holds.
RawLens == {1, zSpaceSize - 5, zSpaceSize}

RECURSIVE Concat(_)
Concat(ss) == IF ss = <<>> THEN <<>> ELSE Head(ss) \o Concat(Tail(ss))

CharAlpha == {chLBrack, chRBrack, chLBrace, chRBrace, chComma, chColon,
              chQuote, chBSlash, chOne, chMinus, chDot, chLowerE, chPlus,
              chSpace}
CharTexts == UNION {[1..n -> CharAlpha] : n \in 0..MaxChars}

tokString == <<chQuote, chLowerA, chQuote>>
Tokens    == {<<chLBrack>>, <<chRBrack>>, <<chLBrace>>, <<chRBrace>>,
              <<chComma>>, <<chColon>>, tokString, <<chOne>>}
TokTexts  == {Concat(ts) : ts \in UNION {[1..n -> Tokens] : n \in 0..MaxToks}}

\* The texts of the documentation's examples, and longer ones:
\*   ''
\*   '[]'
\*   '{}'
\*   'null'
\*   'nullable'
\*   'true'
\*   'false'
\*   '1.2.3'
\*   '-'
\*   '1e10'
\*   '007'
\*   '{"a":1,}'
\*   '[1,]'
\*   '{"a":1}'
\*   '{["a"]:1}'
\*   '{"a":[1,{}]}'
\*   '"a\\"b"'
\*   ' [1, 1] '
\*   '[[1],[]]'
\*   '[1,1,1,1,1,1,1,1,1,1,1]'
\*   '{"a":1,"a":1,"a":1,"a":1,"a":1}'
\*   '[1,1,1,1,1,1,1,1,1,[1]]'
\*   '[1,1,1,1,1,1,1,{"a":1}]'
\*   '"\u00e9\n"'
\*   '-0.5E-1'
\*   '"aaa...a"' with zSpaceSize bytes between the quotes
Corpus == {
    <<>>,
    <<91, 93>>,
    <<123, 125>>,
    <<110, 117, 108, 108>>,
    <<110, 117, 108, 108, 97, 98, 108, 101>>,
    <<116, 114, 117, 101>>,
    <<102, 97, 108, 115, 101>>,
    <<49, 46, 50, 46, 51>>,
    <<45>>,
    <<49, 101, 49, 48>>,
    <<48, 48, 55>>,
    <<123, 34, 97, 34, 58, 49, 44, 125>>,
    <<91, 49, 44, 93>>,
    <<123, 34, 97, 34, 58, 49, 125>>,
    <<123, 91, 34, 97, 34, 93, 58, 49, 125>>,
    <<123, 34, 97, 34, 58, 91, 49, 44, 123, 125, 93, 125>>,
    <<34, 97, 92, 34, 98, 34>>,
    <<32, 91, 49, 44, 32, 49, 93, 32>>,
    <<91, 91, 49, 93, 44, 91, 93, 93>>,
    <<91, 49, 44, 49, 44, 49, 44, 49, 44, 49, 44, 49, 44, 49, 44, 49, 44, 49, 44, 49, 44, 49, 93>>,
    <<123, 34, 97, 34, 58, 49, 44, 34, 97, 34, 58, 49, 44, 34, 97, 34, 58, 49, 44, 34, 97, 34, 58, 49, 44, 34, 97, 34, 58, 49, 125>>,
    <<91, 49, 44, 49, 44, 49, 44, 49, 44, 49, 44, 49, 44, 49, 44, 49, 44, 49, 44, 91, 49, 93, 93>>,
    <<91, 49, 44, 49, 44, 49, 44, 49, 44, 49, 44, 49, 44, 49, 44, 123, 34, 97, 34, 58, 49, 125, 93>>,
    <<34, 92, 117, 48, 48, 101, 57, 92, 110, 34>>,
    <<45, 48, 46, 53, 69, 45, 49>>,
    <<chQuote>> \o Fill(zSpaceSize) \o <<chQuote>>}

JsonTexts == CharTexts \cup TokTexts \cup Corpus

\* The junk a stray read can return as an eType: a type or none.
JunkTypes == 0..(JSON_OBJECT + 1)

\* The junk matters only to a call in which a stray read happens.
JunkOf(fault) == IF fault THEN JunkTypes ELSE {0}

BuildValues ==
  {SqlValue("NULL", <<>>), SqlValue("INTEGER", <<chOne>>),
   SqlValue("FLOAT", <<chOne, chDot, chOne>>),
   SqlValue("TEXT", <<>>), SqlValue("TEXT", <<chLowerA, chQuote, chLowerA>>),
   SqlValue("TEXT", Fill(zSpaceSize)), SqlValue("BLOB", <<chLowerA>>)}

BuildCalls == UNION {[1..n -> BuildValues] : n \in 0..MaxArgs}
ParseCalls == {<<SqlValue("TEXT", t)>> : t \in Corpus} \cup {<<SqlValue("NULL", <<>>)>>}

(***************************************************************************)
(* State machines                                                          *)
(***************************************************************************)
NoOp == [name |-> "none", ret |-> 0, k |-> 0, fault |-> FALSE, ctx |-> NoResult,
         zIn |-> <<>>, N |-> 0, nUsed0 |-> 0, nAlloc0 |-> 0, oom0 |-> FALSE,
         steps |-> 0]

\* The allocator's answers are drawn anew for every operation; what is
\* left of them afterwards is of no account.
Settle(p) == [p EXCEPT !.mem = 0]
SettleParse(x) == [x EXCEPT !.mem = 0, !.junk = IF x.fault THEN @ ELSE 0]

NoParse == NewParse(<<>>, 0, 0)

(* ---- the accumulator alone ---- *)
InitAcc ==
  /\ js = jsonInit(NoResult, 0)
  /\ op = [NoOp EXCEPT !.name = "jsonInit"]
  /\ call = <<>>
  /\ px = NoParse
  /\ pc = "acc"

AccOp(name, zIn, N) ==
  [NoOp EXCEPT !.name = name, !.zIn = zIn, !.N = N, !.nUsed0 = js.nUsed,
               !.nAlloc0 = js.nAlloc, !.oom0 = js.oom, !.steps = op.steps + 1]

AccEnabled == pc = "acc" /\ op.steps < MaxOps /\ ~js.overrun

AccInit ==
  /\ AccEnabled /\ js.bStatic
  /\ js' = jsonInit(NoResult, 0)
  /\ op' = AccOp("jsonInit", <<>>, 0)
  /\ UNCHANGED <<call, px, pc>>

AccReset ==
  /\ AccEnabled
  /\ js' = jsonReset(js)
  /\ op' = AccOp("jsonReset", <<>>, 0)
  /\ UNCHANGED <<call, px, pc>>

AccAppendRaw ==
  /\ AccEnabled
  /\ \E n \in RawLens, m \in Mems :
       /\ js' = Settle(jsonAppendRaw([js EXCEPT !.mem = m], Fill(n), n))
       /\ op' = AccOp("jsonAppendRaw", Fill(n), n)
  /\ UNCHANGED <<call, px, pc>>

AccAppendChar ==
  /\ AccEnabled
  /\ \E c \in TextAlpha, m \in Mems :
       /\ js' = Settle(jsonAppendChar([js EXCEPT !.mem = m], c))
       /\ op' = AccOp("jsonAppendChar", <<c>>, 1)
  /\ UNCHANGED <<call, px, pc>>

AccAppendString ==
  /\ AccEnabled
  /\ \E t \in Texts, m \in Mems :
       /\ js' = Settle(jsonAppendString([js EXCEPT !.mem = m], t, Len(t)))
       /\ op' = AccOp("jsonAppendString", t, Len(t))
  /\ UNCHANGED <<call, px, pc>>

AccResult ==
  /\ AccEnabled
  /\ js' = jsonResult(js)
  /\ op' = AccOp("jsonResult", <<>>, 0)
  /\ UNCHANGED <<call, px, pc>>

NextAcc == \/ AccInit \/ AccReset \/ AccAppendRaw \/ AccAppendChar
           \/ AccAppendString \/ AccResult

SpecAcc == InitAcc /\ [][NextAcc]_vars

(* ---- the SQL functions ---- *)
Init ==
  /\ js = NoJson
  /\ op = NoOp
  /\ (call \in BuildCalls \/ call \in ParseCalls)
  /\ px = NoParse
  /\ pc = "idle"

Done(name, r) ==
  /\ js' = Settle(r.js)
  /\ px' = SettleParse(r.x)
  /\ op' = [NoOp EXCEPT !.name = name, !.ret = r.rc, !.ctx = r.ctx,
                        !.fault = r.fault]
  /\ pc' = "done"
  /\ UNCHANGED call

Built(jx) ==
  [js |-> jx, x |-> NoParse, rc |-> 0, ctx |-> jx.pCtx, fault |-> FALSE]

CallArray ==
  /\ pc = "idle"
  /\ \E m \in Mems : Done("json_array", Built(jsonArrayFunc(NoResult, call, m)))

CallObject ==
  /\ pc = "idle"
  /\ \E m \in Mems : Done("json_object", Built(jsonObjectFunc(NoResult, call, m)))

CallParse ==
  /\ pc = "idle" /\ Len(call) = 1
  /\ \E m \in Mems :
       \E junk \in JunkOf(jsonParseFunc(NoResult, call, m, 0).fault) :
         Done("json_parse", jsonParseFunc(NoResult, call, m, junk))

CallTest1 ==
  /\ pc = "idle" /\ Len(call) = 1
  /\ \E m \in Mems :
       \E junk \in JunkOf(jsonTest1Func(NoResult, call, m, 0).fault) :
         Done("json_test1", jsonTest1Func(NoResult, call, m, junk))

CallNodeCount ==
  /\ pc = "idle" /\ Len(call) = 1
  /\ \E m \in Mems :
       \E junk \in JunkOf(jsonNodeCountFunc(NoResult, call, m, 0).fault) :
         Done("json_nodecount", jsonNodeCountFunc(NoResult, call, m, junk))

Next == CallArray \/ CallObject \/ CallParse \/ CallTest1 \/ CallNodeCount

Spec == Init /\ [][Next]_vars

(* ---- the parser and the renderer as functions ---- *)
InitParse ==
  /\ js = NoJson
  /\ op = NoOp
  /\ call \in {<<SqlValue("TEXT", t)>> : t \in JsonTexts}
  /\ px = NoParse
  /\ pc = "idle"

Parsed(r) ==
  /\ px' = SettleParse(r.pParse)
  /\ op' = [NoOp EXCEPT !.name = "jsonParse", !.ret = r.ret,
                        !.fault = r.pParse.fault]

\* jsonParse(&x, zJson).  The junk matters only where a stray read
\* happens.
ParseStep ==
  /\ pc = "idle"
  /\ \E m \in Mems :
       \E junk \in JunkOf(jsonParse(call[1].text, m, 0).pParse.fault) :
         Parsed(jsonParse(call[1].text, m, junk))
  /\ pc' = "parsed"
  /\ UNCHANGED <<js, call>>

Rendered(k, r) ==
  /\ js' = Settle(r.pOut)
  /\ op' = [NoOp EXCEPT !.name = "jsonRenderNode", !.k = k, !.ret = r.ret,
                        !.fault = r.fault]

\* jsonRenderNode(&x.aNode[k], &s) on a fresh accumulator s, after a parse
\* that returned 0.  The junk is what a read past the node sequence
\* returns as an eType.
RenderStep ==
  /\ pc = "parsed" /\ op.ret = 0
  /\ \E k \in 0..(px.nNode - 1), m \in Mems :
       \E junk \in JunkOf(jsonRenderNode(px, k, jsonInit(NoResult, m)).fault) :
         Rendered(k, jsonRenderNode([px EXCEPT !.junk = junk], k,
                                    jsonInit(NoResult, m)))
  /\ pc' = "rendered"
  /\ UNCHANGED <<call, px>>

NextParse == ParseStep \/ RenderStep

SpecParse == InitParse /\ [][NextParse]_vars

(***************************************************************************)
(* Properties                                                              *)
(***************************************************************************)
\* The JSON text of the call
T == IF Len(call) = 1 THEN call[1].text ELSE <<>>

Appends == {"jsonAppendRaw", "jsonAppendChar", "jsonAppendString"}

\* How many bytes of zIn are '"' or '\'
Escapes(zIn) ==
  Cardinality({k \in 1..Len(zIn) : zIn[k] = chQuote \/ zIn[k] = chBSlash})

\* The slots node k and its subtree take: 1 + n for a container, else 1.
Span(x, k) ==
  IF x.aNode[k + 1].eType \in {JSON_ARRAY, JSON_OBJECT}
    THEN 1 + x.aNode[k + 1].n ELSE 1

\* The indexes of the roots of the values that follow one another from
\* slot k to slot last, each skipped by its span.
RECURSIVE RootsFrom(_, _, _)
RootsFrom(x, k, last) ==
  IF k > last \/ k >= x.nNode THEN <<>>
  ELSE <<k>> \o RootsFrom(x, k + Span(x, k), last)

\* The children of the container at slot i
Children(x, i) == RootsFrom(x, i + 1, i + x.aNode[i + 1].n)

(* ---- C1 ---- *)
\* C1: once the oom flag of the accumulator is set, a call of
\* jsonAppendRaw, jsonAppendChar or jsonAppendString, whatever the length
\* of its input, leaves nUsed and the bytes of the buffer as they were.
C1_AppendAfterOomIsNoOp ==
  [][(js.oom /\ op'.name \in Appends)
       => (js'.nUsed = js.nUsed /\ js'.zBuf = js.zBuf)]_vars

(* ---- C2 ---- *)
\* C2: a call of jsonAppendString on an accumulator with nUsed <= nAlloc,
\* in which no allocation fails, stores no byte at an index >= nAlloc,
\* ends with nUsed <= nAlloc, and adds to nUsed the N bytes of the text,
\* the two quotes and one backslash for each '"' and '\' of the text.
C2_AppendStringStaysInside ==
  (pc = "acc" /\ op.name = "jsonAppendString" /\ ~op.oom0 /\ ~js.oom
     /\ op.nUsed0 <= op.nAlloc0)
    => /\ ~js.overrun
       /\ js.nUsed <= js.nAlloc
       /\ js.nUsed = op.nUsed0 + op.N + 2 + Escapes(op.zIn)

(* ---- C3 ---- *)
\* C3: after a parse that returned 0 (with every allocation granted) the
\* children of every Object node are (key, value) pairs one nesting level
\* below the object, and the root node of every key is a String; so a
\* text with an array or an object in a key position is not accepted.
C3_ObjectKeysAreStrings ==
  (pc = "parsed" /\ op.ret = 0 /\ ~px.oom)
    => \A i \in 0..(px.nNode - 1) :
         px.aNode[i + 1].eType = JSON_OBJECT
           => /\ Len(Children(px, i)) % 2 = 0
              /\ \A m \in 1..Len(Children(px, i)) :
                   /\ px.aNode[Children(px, i)[m] + 1].gDepth
                        = px.aNode[i + 1].gDepth + 1
                   /\ m % 2 = 1
                        => px.aNode[Children(px, i)[m] + 1].eType = JSON_STRING

(* ---- the JSON grammar (RFC 8259), to say which texts are JSON ---- *)
JsonWs(c) == c \in {32, 9, 10, 13}

JsonDigit(c) == c >= 48 /\ c <= 57

JsonHex(c) == JsonDigit(c) \/ (c >= 65 /\ c <= 70) \/ (c >= 97 /\ c <= 102)

\* The bytes that may follow a backslash: " \ / b f n r t (and u)
JsonEscapes == {34, 92, 47, 98, 102, 110, 114, 116}

\* Over the whitespace at i, where ws says that whitespace is allowed
RECURSIVE JsonSkip(_, _, _)
JsonSkip(z, i, ws) ==
  IF ws /\ i < Len(z) /\ JsonWs(At(z, i)) THEN JsonSkip(z, i + 1, ws) ELSE i

\* Over the digits at i
RECURSIVE JsonDigits(_, _)
JsonDigits(z, i) ==
  IF i < Len(z) /\ JsonDigit(At(z, i)) THEN JsonDigits(z, i + 1) ELSE i

\* number = [ "-" ] int [ frac ] [ exp ]: the index after the number that
\* starts at i, or -1
JsonNumberEnd(z, i) ==
  LET Exp(i3) ==
        IF At(z, i3) \in {69, 101}
          THEN LET Digits(s) == IF JsonDigits(z, s) > s
                                  THEN JsonDigits(z, s) ELSE -1
               IN  Digits(IF At(z, i3 + 1) \in {43, 45} THEN i3 + 2 ELSE i3 + 1)
          ELSE i3
      Frac(i2) ==
        IF At(z, i2) = 46
          THEN IF JsonDigits(z, i2 + 1) > i2 + 1
                 THEN Exp(JsonDigits(z, i2 + 1)) ELSE -1
          ELSE Exp(i2)
      Whole(i1) ==
        IF At(z, i1) = 48 THEN Frac(i1 + 1)
        ELSE IF JsonDigits(z, i1) > i1 THEN Frac(JsonDigits(z, i1))
        ELSE -1
  IN  Whole(IF At(z, i) = 45 THEN i + 1 ELSE i)

\* The index after the closing quote of the string whose characters start
\* at i, or -1.  The characters up to the next quote, backslash or control
\* character are plain ones.
RECURSIVE JsonStringEnd(_, _)
JsonStringEnd(z, i) ==
  LET Special == {k \in i..(Len(z) - 1) : z[k + 1] \in {34, 92} \/ z[k + 1] < 32}
      Stop(k) ==
        IF z[k + 1] = 34 THEN k + 1
        ELSE IF z[k + 1] = 92
          THEN IF At(z, k + 1) \in JsonEscapes THEN JsonStringEnd(z, k + 2)
               ELSE IF At(z, k + 1) = 117
                       /\ \A h \in 2..5 : JsonHex(At(z, k + h))
                 THEN JsonStringEnd(z, k + 6)
               ELSE -1
        ELSE -1
  IN  IF Special = {} THEN -1
      ELSE Stop(CHOOSE k \in Special : \A m \in Special : k <= m)

RECURSIVE JsonValueEnd(_, _, _)
RECURSIVE JsonElementsEnd(_, _, _)
RECURSIVE JsonMembersEnd(_, _, _)

\* The index after the value that starts at i, or -1
JsonValueEnd(z, i, ws) ==
  LET Elements(j) == IF At(z, j) = 93 THEN j + 1 ELSE JsonElementsEnd(z, j, ws)
      Members(j)  == IF At(z, j) = 125 THEN j + 1 ELSE JsonMembersEnd(z, j, ws)
  IN  IF i >= Len(z) THEN -1
      ELSE IF At(z, i) = 91 THEN Elements(JsonSkip(z, i + 1, ws))
      ELSE IF At(z, i) = 123 THEN Members(JsonSkip(z, i + 1, ws))
      ELSE IF At(z, i) = 34 THEN JsonStringEnd(z, i + 1)
      ELSE IF At(z, i) = 45 \/ JsonDigit(At(z, i)) THEN JsonNumberEnd(z, i)
      ELSE IF \A k \in 1..4 : At(z, i + k - 1) = str_null[k] THEN i + 4
      ELSE IF \A k \in 1..4 : At(z, i + k - 1) = str_true[k] THEN i + 4
      ELSE IF \A k \in 1..5 : At(z, i + k - 1) = str_false[k] THEN i + 5
      ELSE -1

\* elements = value *( "," value ) "]", the first value starting at i
JsonElementsEnd(z, i, ws) ==
  LET Delim(j) ==
        IF At(z, j) = 44 THEN JsonElementsEnd(z, JsonSkip(z, j + 1, ws), ws)
        ELSE IF At(z, j) = 93 THEN j + 1
        ELSE -1
      Value(e) == IF e < 0 THEN -1 ELSE Delim(JsonSkip(z, e, ws))
  IN  Value(JsonValueEnd(z, i, ws))

\* members = string ":" value *( "," string ":" value ) "}"
JsonMembersEnd(z, i, ws) ==
  LET Delim(j) ==
        IF At(z, j) = 44 THEN JsonMembersEnd(z, JsonSkip(z, j + 1, ws), ws)
        ELSE IF At(z, j) = 125 THEN j + 1
        ELSE -1
      Value(e) == IF e < 0 THEN -1 ELSE Delim(JsonSkip(z, e, ws))
      Colon(j) == IF At(z, j) = 58
                    THEN Value(JsonValueEnd(z, JsonSkip(z, j + 1, ws), ws))
                    ELSE -1
      Key(e) == IF e < 0 THEN -1 ELSE Colon(JsonSkip(z, e, ws))
  IN  IF At(z, i) = 34 THEN Key(JsonStringEnd(z, i + 1)) ELSE -1

\* z is one JSON value, with whitespace around the tokens if ws
IsJson(z, ws) ==
  LET End(e) == e >= 0 /\ JsonSkip(z, e, ws) = Len(z)
  IN  End(JsonValueEnd(z, JsonSkip(z, 0, ws), ws))

\* z is a JSON value followed by more than whitespace: the value ends
\* with the byte at p, a closing quote, bracket or brace, or is followed
\* by whitespace
HasTrailingContent(z) ==
  \E p \in 1..(Len(z) - 1) :
    /\ IsJson(SubSeq(z, 1, p), TRUE)
    /\ z[p] \in {34, 93, 125} \/ JsonWs(z[p + 1])
    /\ \E k \in (p + 1)..Len(z) : ~JsonWs(z[k])

(* ---- C4 ---- *)
\* C4: jsonParse returns 0 only for a text that is one value: then there
\* is a node 0 and it spans the whole node sequence; and it returns
\* non-zero for a text with no value in it (empty, or whitespace only)
\* and for a value followed by more than whitespace.  (Stated for the
\* calls in which every allocation is granted.)
C4_ExactlyOneValue ==
  (pc = "parsed" /\ ~px.oom)
    => /\ op.ret = 0 => (px.nNode >= 1 /\ Span(px, 0) = px.nNode)
       /\ (\A k \in 1..Len(T) : isspace(T[k])) => op.ret # 0
       /\ HasTrailingContent(T) => op.ret # 0

(* ---- C5 ---- *)
\* C5: a parse in which jsonParseAddNode failed (oom is set) reads and
\* writes no slot outside the node array, and jsonParse returns non-zero
\* from it, with nNode = 0 and the node array freed.
C5_AllocFailureAborts ==
  (pc = "parsed" /\ px.oom)
    => /\ op.ret # 0
       /\ ~px.fault
       /\ px.nNode = 0 /\ px.aNode = <<>> /\ px.nHeap = 0

(* ---- C6 ---- *)
\* The text with a backslash before each '"' and '\'
RECURSIVE Escaped(_)
Escaped(t) ==
  IF Escapes(t) = 0 THEN t
  ELSE (IF Head(t) \in {chQuote, chBSlash} THEN <<chBSlash, Head(t)>>
                                           ELSE <<Head(t)>>)
       \o Escaped(Tail(t))

\* The JSON encoding of an SQL value
Encoding(v) ==
  CASE v.type = "NULL" -> str_null
    [] v.type \in {"INTEGER", "FLOAT"} -> v.text
    [] v.type = "TEXT" -> <<chQuote>> \o Escaped(v.text) \o <<chQuote>>

RECURSIVE Joined(_)
Joined(argv) ==
  IF Len(argv) = 0 THEN <<>>
  ELSE IF Len(argv) = 1 THEN Encoding(argv[1])
  ELSE Encoding(argv[1]) \o <<chComma>> \o Joined(Tail(argv))

Encodable(v) == v.type \in {"NULL", "INTEGER", "FLOAT", "TEXT"}

\* C6: json_array of any number of NULL, INTEGER, FLOAT and TEXT values,
\* none included, returns '[', the encodings of the values with a ','
\* between them, and ']'; json_object of an even number of arguments,
\* none included, with TEXT labels and such values, returns a text that
\* opens with '{' and closes with '}'.  (For the calls that run out of
\* no memory and store no byte outside the buffer.)
C6_BalancedDelimiters ==
  (pc = "done" /\ op.ctx.kind # "nomem" /\ ~js.overrun)
    => /\ (op.name = "json_array" /\ \A k \in 1..Len(call) : Encodable(call[k]))
         => /\ op.ctx.kind = "text"
            /\ op.ctx.text = <<chLBrack>> \o Joined(call) \o <<chRBrack>>
       /\ (op.name = "json_object" /\ Len(call) % 2 = 0
             /\ \A k \in 1..Len(call) :
                  IF k % 2 = 1 THEN call[k].type = "TEXT"
                               ELSE Encodable(call[k]))
         => /\ op.ctx.kind = "text"
            /\ Len(op.ctx.text) >= 2
            /\ Head(op.ctx.text) = chLBrace
            /\ op.ctx.text[Len(op.ctx.text)] = chRBrace

(* ---- C7 ---- *)
\* C7: for a JSON text T (RFC 8259) with no whitespace between its tokens,
\* when every allocation is granted, jsonParse returns 0, every String
\* node has bRaw = 0, and jsonRenderNode of node 0 on an empty accumulator
\* leaves exactly the bytes of T in it, the strings as they stand in T.
C7_RoundTrip ==
  (IsJson(T, FALSE) /\ ~px.oom)
    => /\ pc = "parsed"
         => /\ op.ret = 0
            /\ px.nNode >= 1
            /\ \A i \in 0..(px.nNode - 1) :
                 px.aNode[i + 1].eType = JSON_STRING => ~px.aNode[i + 1].bRaw
       /\ (pc = "rendered" /\ op.k = 0 /\ ~js.oom)
         => /\ js.zBuf = T
            /\ js.nUsed = Len(T)
            /\ ~js.overrun

\* '{"a":[1,{}]}' was parsed and its node 0 rendered
C7_Witness ==
  /\ pc = "rendered" /\ op.k = 0 /\ ~px.oom /\ ~js.oom
  /\ T = <<123, 34, 97, 34, 58, 91, 49, 44, 123, 125, 93, 125>>
  /\ px.nNode = 5
  /\ js.zBuf = T

(* ---- C8 ---- *)
\* The nodes added while the container of slot i was open
Descendants(x, i) ==
  {k \in (i + 1)..(x.nNode - 1) :
     \A m \in (i + 1)..k : x.aNode[m + 1].gDepth > x.aNode[i + 1].gDepth}

\* C8: after a parse that returned 0, the n of every Array and Object node
\* is the number of its descendants, which are the slots i+1 .. i+n of
\* the node sequence; '[]' and '{}' give one node with n = 0; n is
\* assigned at most once after the node was added (once, at the closing
\* delimiter, for a container with members); and jsonRenderNode of any
\* node returns 1 plus the number of the node's descendants.
C8_SubtreeSize ==
  /\ ((pc = "parsed" /\ op.ret = 0) \/ pc = "rendered")
       => /\ \A i \in 0..(px.nNode - 1) :
               px.aNode[i + 1].eType \in {JSON_ARRAY, JSON_OBJECT}
                 => /\ px.aNode[i + 1].n = Cardinality(Descendants(px, i))
                    /\ i + px.aNode[i + 1].n < px.nNode
                    /\ px.aNode[i + 1].gFill <= 1
                    /\ px.aNode[i + 1].n > 0 => px.aNode[i + 1].gFill = 1
          /\ T \in {<<chLBrack, chRBrack>>, <<chLBrace, chRBrace>>}
               => (px.nNode = 1 /\ px.aNode[1].n = 0)
  /\ pc = "rendered" => op.ret = Span(px, op.k)

(* ---- C9 ---- *)
\* The backslashes that stand right before byte k of z (k counts from 1)
BackslashRun(z, k) ==
  CHOOSE r \in 0..(k - 1) :
    /\ \A m \in 1..r : z[k - m] = chBSlash
    /\ r = k - 1 \/ z[k - r - 1] # chBSlash

\* Byte k of z is a quote that opens or closes a string
StringQuote(z, k) == z[k] = chQuote /\ BackslashRun(z, k) % 2 = 0

InString(z, k) == Cardinality({m \in 1..(k - 1) : StringQuote(z, m)}) % 2 = 1

\* The last byte before byte k that is not whitespace, 0 if there is none
PrevToken(z, k) ==
  LET S == {m \in 1..(k - 1) : ~isspace(z[m])}
  IN  IF S = {} THEN 0 ELSE CHOOSE m \in S : \A q \in S : q <= m

\* z has a '}' or ']' in the place of a value other than as the first
\* token of a container of its kind: at the start of the text, after a
\* ',' or a ':', or right after the opening of a container of the other
\* kind.
MisplacedClose(z) ==
  \E k \in 1..Len(z) :
    /\ z[k] \in {chRBrace, chRBrack}
    /\ ~InString(z, k)
    /\ \/ PrevToken(z, k) = 0
       \/ /\ PrevToken(z, k) > 0
          /\ \/ z[PrevToken(z, k)] \in {chComma, chColon}
             \/ z[k] = chRBrace /\ z[PrevToken(z, k)] = chLBrack
             \/ z[k] = chRBrack /\ z[PrevToken(z, k)] = chLBrace

\* C9: a text with a '}' or ']' in the place of a value, other than as the
\* first token of a container of its kind, makes jsonParse return
\* non-zero and leave nNode = 0 and no node array.
C9_EndSignalElsewhereFails ==
  (pc = "parsed" /\ MisplacedClose(T))
    => /\ op.ret # 0
       /\ px.nNode = 0 /\ px.aNode = <<>> /\ px.nHeap = 0

(* ---- C10 ---- *)
\* C10: when json_array, json_object, json_test1 (jsonReturn) or
\* json_parse returns, no heap buffer that jsonGrow obtained is left that
\* was neither freed nor handed to the host.
C10_NoBufferLeft ==
  (pc = "done" /\ op.name \in {"json_array", "json_object", "json_test1",
                               "json_parse"})
    => js.nHeap = 0

\* The bytes a number token is made of
NumberBytes == {chMinus, chPlus, chDot, chLowerE, chUpperE} \cup (chZero..chNine)

\* z is one number-like token: it starts as the number branch requires and
\* holds number bytes only.
NumberLike(z) ==
  /\ Len(z) >= 1
  /\ z[1] = chMinus \/ isdigit(z[1])
  /\ \A k \in 1..Len(z) : z[k] \in NumberBytes

\* C11: every number token the parser accepts ends in a decimal digit (and
\* so holds a digit), is stored as the bytes of the text it was read from,
\* and is a Real exactly when it holds '.', 'e' or 'E', an Int otherwise; a
\* text that is one number-like token ending in '-', '.', '+', 'e' or 'E' is
\* rejected.  Stated of the parses in which every allocation was granted.
C11_NumberTokens ==
  (pc # "idle" /\ ~px.oom) =>
    /\ \A k \in 1..px.nNode :
         px.aNode[k].eType \in {JSON_INT, JSON_REAL} =>
           LET node == px.aNode[k]
               c    == Content(px, node)
           IN  /\ node.n >= 1
               /\ node.zJContent # NullPtr
               /\ node.zJContent + node.n <= Len(T)
               /\ \A i \in 1..Len(c) : c[i] \in NumberBytes
               /\ isdigit(c[Len(c)])
               /\ (node.eType = JSON_REAL) <=>
                    (\E i \in 1..Len(c) : c[i] \in {chDot, chLowerE, chUpperE})
    /\ (pc = "parsed" /\ NumberLike(T) /\ ~isdigit(T[Len(T)])) => op.ret # 0

=============================================================================
